---- MODULE Spec2Model ----
(***************************************************************************)
(* Model of the nl2sql-service: DDL chunk extraction (app/schema_docs.py), *)
(* index bootstrap (app/vector_store.py), prompt assembly and output       *)
(* sanitisation (app/rag_sql.py) and the /nl2sql handler (app/main.py).    *)
(*                                                                         *)
(* A Python str is modelled as a sequence of one-character strings, so     *)
(* that slicing, stripping, searching and len() are computed as the code   *)
(* computes them.                                                          *)
(***************************************************************************)
EXTENDS Integers, Sequences, FiniteSets, TLC

\* ------------------------------------------------------------------ bounds
MaxStmts == 3
WideLines == 39
WideLineLen == 96
WideSlack == 2

\* ------------------------------------------------------- characters, text
UpperSeq == <<"A","B","C","D","E","F","G","H","I","J","K","L","M","N","O","P","Q","R","S","T","U","V","W","X","Y","Z">>
LowerSeq == <<"a","b","c","d","e","f","g","h","i","j","k","l","m","n","o","p","q","r","s","t","u","v","w","x","y","z">>
DigitSeq == <<"0","1","2","3","4","5","6","7","8","9">>

Range(f) == {f[i] : i \in DOMAIN f}

UpperSet == Range(UpperSeq)

\* [A-Za-z0-9_]
WordChars == UpperSet \cup Range(LowerSeq) \cup Range(DigitSeq) \cup {"_"}

\* the whitespace str.strip() and the regex class \s remove
Whitespace == {" ", "\n", "\t"}

\* str.lower() on one character
ToLower(c) == IF c \in UpperSet
              THEN LowerSeq[CHOOSE i \in 1..Len(UpperSeq) : UpperSeq[i] = c]
              ELSE c

\* str.lower()
Lower(s) == [k \in 1..Len(s) |-> ToLower(s[k])]

\* s[p] with "" standing for "no character here"
At(s, p) == IF p >= 1 /\ p <= Len(s) THEN s[p] ELSE ""

Min(S) == CHOOSE x \in S : \A y \in S : x <= y

\* lit occurs in s at position i
MatchAt(s, i, lit) ==
    /\ i >= 1
    /\ i + Len(lit) - 1 <= Len(s)
    /\ \A k \in 1..Len(lit) : s[i + k - 1] = lit[k]

\* the same, ignoring case (re.IGNORECASE); lit is given in lower case
MatchAtI(s, i, lit) ==
    /\ i >= 1
    /\ i + Len(lit) - 1 <= Len(s)
    /\ \A k \in 1..Len(lit) : ToLower(s[i + k - 1]) = lit[k]

\* str.startswith
StartsWith(s, lit) == MatchAt(s, 1, lit)

\* lit in s
Contains(s, lit) == \E i \in 1..(Len(s) - Len(lit) + 1) : MatchAt(s, i, lit)

\* str.lstrip(chars)
LStripSet(s, C) ==
    LET lead == CHOOSE t \in 0..Len(s) :
                    /\ (t = Len(s) \/ s[t + 1] \notin C)
                    /\ \A m \in 1..t : s[m] \in C
    IN  SubSeq(s, lead + 1, Len(s))

\* str.rstrip(chars)
RStripSet(s, C) ==
    LET trail == CHOOSE t \in 0..Len(s) :
                    /\ (t = Len(s) \/ s[Len(s) - t] \notin C)
                    /\ \A m \in 1..t : s[Len(s) - m + 1] \in C
    IN  SubSeq(s, 1, Len(s) - trail)

\* str.strip(chars)
StripSet(s, C) == RStripSet(LStripSet(s, C), C)

\* str.strip()
Strip(s) == StripSet(s, Whitespace)

\* the elements of a set of integers in increasing order
RECURSIVE SortedSeq(_)
SortedSeq(S) == IF S = {} THEN <<>>
                ELSE LET m == Min(S) IN <<m>> \o SortedSeq(S \ {m})

\* s without the characters at the positions in gone
Remove(s, gone) ==
    LET idx == SelectSeq([k \in 1..Len(s) |-> k], LAMBDA k : k \notin gone)
    IN  [i \in 1..Len(idx) |-> s[idx[i]]]

\* sep.join(parts)
RECURSIVE Join(_, _)
Join(sep, parts) ==
    IF Len(parts) = 0 THEN <<>>
    ELSE IF Len(parts) = 1 THEN parts[1]
    ELSE parts[1] \o sep \o Join(sep, Tail(parts))

\* ------------------------------------------------ app/schema_docs.py
MAX_CHARS == 4000
MAX_COL_LINES == 40
MAX_CONSTRAINT_LINES == 15

TruncationMarker == <<"\n","-","-"," ","(","t","r","u","n","c","a","t","e","d"," ","f","o","r"," ","e","m","b","e","d","d","i","n","g",")","\n">>
ColsTruncatedLine == <<"-","-"," ","(","c","o","l","u","m","n","s"," ","t","r","u","n","c","a","t","e","d"," ","f","o","r"," ","b","r","e","v","i","t","y",")">>
ConstraintsTruncatedLine == <<"-","-"," ","(","c","o","n","s","t","r","a","i","n","t","s"," ","t","r","u","n","c","a","t","e","d"," ","f","o","r"," ","b","r","e","v","i","t","y",")">>

\* _truncate_text with `<` in place of `<=`
_truncate_text_lt(text, max_chars) ==
    IF Len(text) < max_chars THEN text
    ELSE SubSeq(text, 1, max_chars) \o TruncationMarker

\* _truncate_text(text, max_chars)
_truncate_text(text, max_chars) ==
    IF Len(text) <= max_chars THEN text
    ELSE SubSeq(text, 1, max_chars) \o TruncationMarker

\* re.sub(r"--.*?$", "", sql_text, flags=re.MULTILINE): a position goes when
\* a "--" starts at or before it on the same line
StripLineComments(s) ==
    LET n  == Len(s)
        dd == {j \in 1..(n - 1) : s[j] = "-" /\ s[j + 1] = "-"}
        nl == {k \in 1..n : s[k] = "\n"}
        gone == {k \in 1..n : \E j \in dd : j <= k /\ \A m \in nl : m < j \/ m > k}
    IN  Remove(s, gone)

\* the spans <<first, last>> matched by r"/\*.*?\*/" (re.DOTALL) from pos on
RECURSIVE BlockCommentSpans(_, _)
BlockCommentSpans(s, pos) ==
    LET n      == Len(s)
        opens  == {j \in pos..(n - 1) : s[j] = "/" /\ s[j + 1] = "*"}
        j      == Min(opens)
        closes == {e \in (j + 2)..(n - 1) : s[e] = "*" /\ s[e + 1] = "/"}
        e      == Min(closes)
    IN  IF opens = {} THEN {}
        ELSE IF closes = {} THEN {}
        ELSE {<<j, e + 1>>} \cup BlockCommentSpans(s, e + 2)

\* re.sub(r"/\*.*?\*/", "", text, flags=re.DOTALL)
StripBlockComments(s) ==
    LET spans == BlockCommentSpans(s, 1)
        gone == {k \in 1..Len(s) : \E sp \in spans : sp[1] <= k /\ k <= sp[2]}
    IN  Remove(s, gone)

\* the first position from p on whose character is not in C
SkipWhile(s, p, C) ==
    IF p > Len(s) THEN p
    ELSE CHOOSE j \in p..(Len(s) + 1) :
            /\ At(s, j) \notin C
            /\ \A m \in p..(j - 1) : s[m] \in C

\* the end of the header pattern: the name lies in p5..p6-1 and "(" is at p8
HeaderParen(s, i, p2, p4, p5, p6, p8) ==
    [ok |-> /\ MatchAtI(s, i, <<"c","r","e","a","t","e">>)
            /\ p2 > i + 6
            /\ MatchAtI(s, p2, <<"t","a","b","l","e">>)
            /\ p4 > p2 + 5
            /\ p6 > p5
            /\ At(s, p8) = "(",
     name |-> IF p6 > p5 THEN SubSeq(s, p5, p6 - 1) ELSE <<>>,
     bodyStart |-> p8 + 1]

\* `?\s* after the name, which ends before p6
HeaderClose(s, i, p2, p4, p5, p6) ==
    HeaderParen(s, i, p2, p4, p5, p6,
                SkipWhile(s, IF At(s, p6) = "BACKTICK" THEN p6 + 1 ELSE p6, Whitespace))

\* ([A-Za-z0-9_]+) from p5 on
HeaderName(s, i, p2, p4, p5) ==
    HeaderClose(s, i, p2, p4, p5, SkipWhile(s, p5, WordChars))

\* `? at p4
HeaderQuote(s, i, p2, p4) ==
    HeaderName(s, i, p2, p4, IF At(s, p4) = "BACKTICK" THEN p4 + 1 ELSE p4)

\* TABLE\s+ from p2 on
HeaderTable(s, i, p2) == HeaderQuote(s, i, p2, SkipWhile(s, p2 + 5, Whitespace))

\* r"CREATE\s+TABLE\s+`?([A-Za-z0-9_]+)`?\s*\(" tried at position i
Header(s, i) == HeaderTable(s, i, SkipWhile(s, i + 6, Whitespace))

\* pattern.finditer(text) from pos on: the (group(1), group(2)) of each match;
\* the non-greedy body ends at the first ");" after the opening parenthesis
RECURSIVE FindIter(_, _)
FindIter(s, pos) ==
    LET n      == Len(s)
        closes == {j \in 1..(n - 1) : s[j] = ")" /\ s[j + 1] = ";"}
        starts == {i \in pos..n :
                     /\ MatchAtI(s, i, <<"c","r","e","a","t","e">>)
                     /\ Header(s, i).ok
                     /\ \E j \in closes : j >= Header(s, i).bodyStart}
        i      == Min(starts)
        h      == Header(s, i)
        j      == Min({c \in closes : c >= h.bodyStart})
    IN  IF starts = {} THEN <<>>
        ELSE <<[name |-> h.name, body |-> SubSeq(s, h.bodyStart, j - 1)]>>
             \o FindIter(s, j + 2)

\* str.splitlines()
SplitLines(b) ==
    LET n    == Len(b)
        nl   == SortedSeq({k \in 1..n : b[k] = "\n"})
        cnt  == Len(nl)
        Lo(r) == IF r = 1 THEN 1 ELSE nl[r - 1] + 1
        Hi(r) == IF r = cnt + 1 THEN n ELSE nl[r] - 1
        segs == [r \in 1..(cnt + 1) |-> SubSeq(b, Lo(r), Hi(r))]
    IN  IF segs[cnt + 1] = <<>> THEN SubSeq(segs, 1, cnt) ELSE segs

\* [line.strip() for line in table_body.splitlines() if line.strip()]
BodyLines(b) ==
    LET segs == SplitLines(b)
        stripped == [r \in 1..Len(segs) |-> Strip(segs[r])]
    IN  SelectSeq(stripped, LAMBDA l : l # <<>>)

\* the test that sends a line to `constraints`
IsConstraintLine(line) ==
    LET lower_line == Lower(line)
    IN  \/ Contains(lower_line, <<" ","p","r","i","m","a","r","y"," ","k","e","y">>)
        \/ Contains(lower_line, <<" ","f","o","r","e","i","g","n"," ","k","e","y">>)
        \/ StartsWith(lower_line, <<"c","o","n","s","t","r","a","i","n","t">>)
        \/ StartsWith(lower_line, <<"u","n","i","q","u","e">>)
        \/ StartsWith(lower_line, <<"i","n","d","e","x">>)
        \/ StartsWith(lower_line, <<"k","e","y"," ">>)

\* line.rstrip(",") over a list of lines
RStripCommas(lines) == [r \in 1..Len(lines) |-> RStripSet(lines[r], {","})]

\* cleaned_cols, clipped to MAX_COL_LINES
CleanedCols(lines) ==
    LET cols == RStripCommas(SelectSeq(lines, LAMBDA l : ~IsConstraintLine(l)))
    IN  IF Len(cols) > MAX_COL_LINES
        THEN SubSeq(cols, 1, MAX_COL_LINES) \o <<ColsTruncatedLine>>
        ELSE cols

\* constraints, clipped to MAX_CONSTRAINT_LINES
Constraints(lines) ==
    LET cons == RStripCommas(SelectSeq(lines, LAMBDA l : IsConstraintLine(l)))
    IN  IF Len(cons) > MAX_CONSTRAINT_LINES
        THEN SubSeq(cons, 1, MAX_CONSTRAINT_LINES) \o <<ConstraintsTruncatedLine>>
        ELSE cons

\* raw_text of one match
RawText(table_name, table_body) ==
    LET lines == BodyLines(table_body)
        compact_body == Join(<<",","\n"," "," ">>, CleanedCols(lines) \o Constraints(lines))
    IN  <<"T","a","b","l","e",":"," ">> \o table_name
        \o <<"\n","C","o","l","u","m","n","s"," ","a","n","d"," ","c","o","n","s","t","r","a","i","n","t","s"," ","(","s","i","m","p","l","i","f","i","e","d",")",":","\n","C","R","E","A","T","E"," ","T","A","B","L","E"," ">>
        \o table_name \o <<" ","(","\n"," "," ">> \o compact_body \o <<"\n",")",";">>

\* the matches when the comments are left in the text
MatchesKeepComments(sql_text) == FindIter(sql_text, 1)

\* the matches the loop of _extract_create_table_blocks runs over
Matches(sql_text) == FindIter(StripBlockComments(StripLineComments(sql_text)), 1)

\* _extract_create_table_blocks(sql_text)
_extract_create_table_blocks(sql_text) ==
    LET ms == Matches(sql_text)
    IN  [r \in 1..Len(ms) |->
            [id |-> ms[r].name,
             text |-> _truncate_text(RawText(ms[r].name, ms[r].body), MAX_CHARS)]]

\* load_schema_chunks(): the chunks, or RuntimeError when there are none
load_schema_chunks(sql_text) ==
    LET cs == _extract_create_table_blocks(sql_text)
    IN  [chunks |-> cs, outcome |-> IF cs = <<>> THEN "error" ELSE "loaded"]

\* ------------------------------------------------------------- DDL inputs
\* the statements and comments a schema file is put together from
TablePatient ==
    [kind |-> "table", name |-> <<"p","a","t","i","e","n","t">>,
     text |-> <<"C","R","E","A","T","E"," ","T","A","B","L","E"," ","p","a","t","i","e","n","t"," ","(","\n"," "," ","i","d"," ","I","N","T"," ","P","R","I","M","A","R","Y"," ","K","E","Y",",","\n"," "," ","d","o","b"," ","D","A","T","E",","," ","-","-"," ","b","o","r","n"," ",")",";","\n"," "," ","n","m"," ","V","A","R","C","H","A","R","(","9",")","\n",")",";","\n">>]

TableRp ==
    [kind |-> "table", name |-> <<"r","p">>,
     text |-> <<"c","r","e","a","t","e"," "," ","t","a","b","l","e"," ","BACKTICK","r","p","BACKTICK","(","r","o","s","t","e","r","_","i","d"," ","I","N","T",","," ","p","i","d"," ","D","E","C","I","M","A","L","(","4",",","2",")",")",";","\n">>]

MalformedBody == <<"z","q"," ","I","N","T">>

TableMalformed ==
    [kind |-> "malformed", name |-> <<"m">>,
     text |-> <<"C","R","E","A","T","E"," ","T","A","B","L","E"," ","m"," ","(","\n"," "," ","z","q"," ","I","N","T",",","\n"," "," ","z","r"," ","I","N","T","\n","\n">>]

LineComment ==
    [kind |-> "comment", name |-> <<>>,
     text |-> <<"-","-"," ","C","R","E","A","T","E"," ","T","A","B","L","E"," ","c"," ","(","q"," ","I","N","T",")",";","\n">>]

BlockComment ==
    [kind |-> "comment", name |-> <<>>,
     text |-> <<"/","*"," ","C","R","E","A","T","E"," ","T","A","B","L","E"," ","d"," ","(","\n"," "," ","q"," ","I","N","T",")",";","\n","*","/","\n">>]

SmallItems == {TablePatient, TableRp, TableMalformed, LineComment, BlockComment}

\* a table of WideLines + 1 column lines whose rendered text is d characters
\* longer than MAX_CHARS (shorter for d < 0)
WideLast(d) ==
    LET base == MAX_CHARS - 69 - WideLines * (WideLineLen + 4)
    IN  IF base + d >= 1 THEN base + d ELSE 1

TableWide(d) ==
    LET line == [k \in 1..WideLineLen |-> "x"]
        last == [k \in 1..WideLast(d) |-> "y"]
        lines == [r \in 1..(WideLines + 1) |-> IF r <= WideLines THEN line ELSE last]
    IN  [kind |-> "table", name |-> <<"w">>,
         text |-> <<"C","R","E","A","T","E"," ","T","A","B","L","E"," ","w"," ","(","\n">> \o Join(<<",","\n">>, lines) \o <<"\n",")",";","\n">>]

\* a table with more column and constraint lines than the clips keep
TableTall ==
    LET cols == [r \in 1..(MAX_COL_LINES + 1) |-> <<"c"," ","I","N","T">>]
        cons == [r \in 1..(MAX_CONSTRAINT_LINES + 1) |-> <<"U","N","I","Q","U","E"," ","(","c",")">>]
    IN  [kind |-> "table", name |-> <<"t">>,
         text |-> <<"C","R","E","A","T","E"," ","T","A","B","L","E"," ","t"," ","(","\n">> \o Join(<<",","\n">>, cols \o cons) \o <<"\n",")",";","\n">>]

DDLInputs ==
    UNION {[1..n -> SmallItems] : n \in 1..MaxStmts}
    \cup {<<TableWide(d)>> : d \in (0 - WideSlack)..WideSlack}
    \cup {<<TableTall>>}

SqlText(items) == Join(<<>>, [r \in 1..Len(items) |-> items[r].text])

VARIABLES stmts, sql_text, chunks, load

xvars == <<stmts, sql_text, chunks, load>>

InitExtract ==
    /\ stmts \in DDLInputs
    /\ sql_text = SqlText(stmts)
    /\ chunks = <<>>
    /\ load = "start"


\* ------------------------------------------------ app/vector_store.py
BATCH_SIZE == 10

MaxChunks == 21
MaxRuns == 2

\* the processes that start against the one shared index
Procs == {"p1", "p2"}

\* self.chunks of a process whose schema file holds n tables
ChunkList(n) == [i \in 1..n |-> [id |-> i, text |-> <<"ddl", i>>]]

\* the vector the embedding model returns for one text
Embedding(text) == <<"emb", text>>

\* _embed(texts): one vector per text, in order
_embed(texts) == [k \in 1..Len(texts) |-> Embedding(texts[k])]

\* the guard with `> 1` in place of `> 0`
IsPopulatedAboveOne(total_vector_count) == total_vector_count > 1

\* stats.get("total_vector_count", 0) > 0
IsPopulated(total_vector_count) == total_vector_count > 0

\* index.describe_index_stats()["total_vector_count"]
TotalVectorCount(idx) == Len(idx)

\* an upsert that adds the vectors and keeps the entries already there
UpsertAppend(idx, vectors) == idx \o vectors

\* index.upsert(vectors=vectors): a vector replaces the entry of the same id
Upsert(idx, vectors) ==
    LET ids == {vectors[k].id : k \in 1..Len(vectors)}
    IN  SelectSeq(idx, LAMBDA e : e.id \notin ids) \o vectors

\* a batch that runs one chunk past its end
BatchChunksOverlong(cs, start) ==
    LET total == Len(cs)
        end == IF start + BATCH_SIZE + 1 < total
               THEN start + BATCH_SIZE + 1 ELSE total
    IN  SubSeq(cs, start + 1, end)

\* batch_chunks of the loop iteration that starts at `start`
BatchChunks(cs, start) ==
    LET total == Len(cs)
        end == IF start + BATCH_SIZE < total THEN start + BATCH_SIZE ELSE total
    IN  SubSeq(cs, start + 1, end)

\* the vectors built from batch_chunks and their embeddings (zip)
BatchVectors(batch_chunks, embeddings) ==
    LET m == IF Len(batch_chunks) < Len(embeddings)
             THEN Len(batch_chunks) ELSE Len(embeddings)
    IN  [k \in 1..m |->
            [id |-> batch_chunks[k].id,
             values |-> embeddings[k],
             metadata |-> [text |-> batch_chunks[k].text]]]

VARIABLES index, pc, start, embeddings, observed,
          runEmbeds, runUpserts, runs, prevDone

bvars == <<index, pc, start, embeddings, observed,
           runEmbeds, runUpserts, runs, prevDone>>

InitBootstrap ==
    /\ index = <<>>
    /\ pc = [p \in Procs |-> "start"]
    /\ start = [p \in Procs |-> 0]
    /\ embeddings = [p \in Procs |-> <<>>]
    /\ observed = [p \in Procs |-> -1]
    /\ runEmbeds = [p \in Procs |-> 0]
    /\ runUpserts = [p \in Procs |-> 0]
    /\ runs = [p \in Procs |-> 1]
    /\ prevDone = [p \in Procs |-> FALSE]


\* ------------------------------------------------ app/rag_sql.py
\* Optional[int]: <<>> is None, <<i>> is the integer i
None == <<>>

\* f"{i}" for an integer i >= 0
RECURSIVE IntToText(_)
IntToText(i) ==
    IF i < 10 THEN <<DigitSeq[i + 1]>>
    ELSE IntToText(i \div 10) \o <<DigitSeq[(i % 10) + 1]>>

\* str(ch) of a SchemaChunk (the dataclass repr) whose text is empty
ChunkRepr(ch) == <<"S","c","h","e","m","a","C","h","u","n","k","(","i","d","=","'">> \o ch.id \o <<"'",","," ","t","e","x","t","=","'","'",")">>

\* _chunks_to_text(chunks) for SchemaChunk elements
_chunks_to_text(cs) ==
    Join(<<"\n","\n">>, [k \in 1..Len(cs) |->
                    IF cs[k].text # <<>> THEN cs[k].text ELSE ChunkRepr(cs[k])])

\* the five lines scope_lines starts with
BaseScopeLines ==
    << <<"T","h","i","n","k"," ","f","r","o","m"," ","a"," ","P","A","T","I","E","N","T","-","C","E","N","T","R","I","C"," ","p","e","r","s","p","e","c","t","i","v","e",".">>,
       <<"W","h","e","n","e","v","e","r"," ","i","t"," ","m","a","k","e","s"," ","s","e","n","s","e",","," ","r","e","t","u","r","n"," ","o","n","e"," ","r","o","w"," ","p","e","r"," ","p","a","t","i","e","n","t",".">>,
       <<"U","s","e"," ","t","h","e"," ","BACKTICK","p","a","t","i","e","n","t","BACKTICK"," ","t","a","b","l","e"," ","a","s"," ","t","h","e"," ","d","r","i","v","i","n","g"," ","t","a","b","l","e",","," ","a","l","i","a","s","e","d"," ","a","s"," ","BACKTICK","p","BACKTICK",".">>,
       <<"U","n","l","e","s","s"," ","t","h","e"," ","u","s","e","r"," ","e","x","p","l","i","c","i","t","l","y"," ","a","s","k","s"," ","o","n","l","y"," ","f","o","r"," ","a","n"," ","a","g","g","r","e","g","a","t","e"," ","(","l","i","k","e"," ","C","O","U","N","T",")",","," ","s","t","a","r","t"," ","t","h","e"," ","S","E","L","E","C","T"," ","c","l","a","u","s","e"," ","w","i","t","h"," ","BACKTICK","S","E","L","E","C","T"," ","p",".","i","d","BACKTICK"," ","a","s"," ","t","h","e"," ","f","i","r","s","t"," ","c","o","l","u","m","n",","," ","t","h","e","n"," ","a","d","d"," ","a","n","y"," ","o","t","h","e","r"," ","n","e","e","d","e","d"," ","p","a","t","i","e","n","t"," ","c","o","l","u","m","n","s",".">>,
       <<"U","s","e"," ","M","y","S","Q","L","-","c","o","m","p","a","t","i","b","l","e"," ","S","Q","L"," ","s","y","n","t","a","x",".">> >>

\* the line appended when roster_id is not None
RosterScopeLine(id) ==
    <<"-"," ","T","h","e"," ","s","e","l","e","c","t","e","d"," ","r","o","s","t","e","r","_","i","d"," ","i","s"," ">> \o IntToText(id)
    \o <<"."," ","R","e","s","t","r","i","c","t"," ","r","e","s","u","l","t","s"," ","t","o"," ","p","a","t","i","e","n","t","s"," ","i","n"," ","t","h","a","t"," ","r","o","s","t","e","r",".","\n"," "," ","T","y","p","i","c","a","l","l","y"," ","y","o","u"," ","s","h","o","u","l","d"," ","j","o","i","n"," ","t","h","e"," ","r","o","s","t","e","r","/","p","a","t","i","e","n","t"," ","a","s","s","o","c","i","a","t","i","o","n"," ","t","a","b","l","e",","," ","f","o","r"," ","e","x","a","m","p","l","e",":","\n"," "," ","BACKTICK","F","R","O","M"," ","p","a","t","i","e","n","t"," ","p","\n"," "," "," ","J","O","I","N"," ","r","o","s","t","e","r","_","p","a","t","i","e","n","t"," ","r","p"," ","O","N"," ","r","p",".","p","a","t","i","e","n","t","_","i","d"," ","="," ","p",".","i","d","\n"," "," "," "," "," ","A","N","D"," ","r","p",".","i","s","_","d","e","l","e","t","e","d"," ","="," ","0","\n"," "," "," "," "," ","A","N","D"," ","r","p",".","i","s","_","a","c","t","i","v","e"," ","="," ","1","\n"," "," "," "," "," ","A","N","D"," ","r","p",".","r","o","s","t","e","r","_","i","d"," ","="," ">>
    \o IntToText(id)
    \o <<"BACKTICK","\n"," "," ","A","d","j","u","s","t"," ","t","a","b","l","e"," ","a","n","d"," ","c","o","l","u","m","n"," ","n","a","m","e","s"," ","t","o"," ","m","a","t","c","h"," ","t","h","e"," ","a","c","t","u","a","l"," ","s","c","h","e","m","a",","," ","b","u","t"," ","a","l","w","a","y","s"," ","l","i","m","i","t"," ","t","o"," ","t","h","i","s"," ","r","o","s","t","e","r"," ","w","h","e","n"," ","r","o","s","t","e","r","_","i","d"," ","i","s"," ","g","i","v","e","n",".">>

\* the line appended when client_id is not None
ClientScopeLine(id) ==
    <<"-"," ","T","h","e"," ","s","e","l","e","c","t","e","d"," ","c","l","i","e","n","t","_","i","d"," ","i","s"," ">> \o IntToText(id)
    \o <<"."," ","I","f"," ","r","e","l","e","v","a","n","t"," ","t","a","b","l","e","s"," ","h","a","v","e"," ","a"," ","BACKTICK","c","l","i","e","n","t","_","i","d","BACKTICK"," ","c","o","l","u","m","n",","," ","a","d","d"," ","c","o","n","d","i","t","i","o","n","s"," ","l","i","k","e"," ","BACKTICK","A","N","D"," ","<","t","a","b","l","e",">",".","c","l","i","e","n","t","_","i","d"," ","="," ">>
    \o IntToText(id)
    \o <<"BACKTICK"," ","s","o"," ","t","h","e"," ","q","u","e","r","y"," ","i","s"," ","s","c","o","p","e","d"," ","t","o"," ","t","h","a","t"," ","c","l","i","e","n","t",".">>

\* scope_lines
ScopeLines(roster_id, client_id) ==
    BaseScopeLines
    \o (IF roster_id # None THEN <<RosterScopeLine(roster_id[1])>> ELSE <<>>)
    \o (IF client_id # None THEN <<ClientScopeLine(client_id[1])>> ELSE <<>>)

SystemPromptHead == <<"\n","Y","o","u"," ","a","r","e"," ","a","n"," ","e","x","p","e","r","t"," ","S","Q","L"," ","g","e","n","e","r","a","t","o","r"," ","f","o","r"," ","a"," ","c","o","m","p","l","e","x"," ","h","e","a","l","t","h","c","a","r","e"," ","M","y","S","Q","L"," ","d","a","t","a","b","a","s","e",".","\n","\n","Y","o","u"," ","m","u","s","t",":","\n","-"," ","U","s","e"," ","O","N","L","Y"," ","t","h","e"," ","t","a","b","l","e","s"," ","a","n","d"," ","c","o","l","u","m","n","s"," ","t","h","a","t"," ","e","x","i","s","t"," ","i","n"," ","t","h","e"," ","p","r","o","v","i","d","e","d"," ","s","c","h","e","m","a"," ","c","o","n","t","e","x","t",".","\n","-"," ","C","h","o","o","s","e"," ","t","h","e"," ","c","o","r","r","e","c","t"," ","j","o","i","n","s"," ","a","n","d"," ","f","i","l","t","e","r","s"," ","b","a","s","e","d"," ","o","n"," ","t","h","e"," ","q","u","e","s","t","i","o","n",".","\n","-"," ","P","r","e","f","e","r"," ","p","a","t","i","e","n","t","-","l","e","v","e","l"," ","q","u","e","r","i","e","s"," ","w","h","e","r","e"," ","e","a","c","h"," ","r","o","w"," ","c","o","r","r","e","s","p","o","n","d","s"," ","t","o"," ","a"," ","p","a","t","i","e","n","t",".","\n","-"," ","U","s","e"," ","t","h","e"," ","BACKTICK","p","a","t","i","e","n","t","BACKTICK"," ","t","a","b","l","e"," ","(","a","l","i","a","s","e","d"," ","a","s"," ","BACKTICK","p","BACKTICK",")"," ","a","s"," ","t","h","e"," ","m","a","i","n"," ","d","r","i","v","i","n","g"," ","t","a","b","l","e"," ","w","h","e","n","e","v","e","r"," ","p","o","s","s","i","b","l","e",".","\n","-"," ","U","n","l","e","s","s"," ","t","h","e"," ","u","s","e","r"," ","e","x","p","l","i","c","i","t","l","y"," ","w","a","n","t","s"," ","o","n","l","y"," ","a","n"," ","a","g","g","r","e","g","a","t","e"," ","(","e",".","g","."," ","C","O","U","N","T","(","*",")",")",","," ","s","t","a","r","t"," ","y","o","u","r"," ","q","u","e","r","y"," ","w","i","t","h",":","\n"," "," "," "," ","S","E","L","E","C","T"," ","p",".","i","d","\n"," "," ","a","n","d"," ","t","h","e","n"," ","a","n","y"," ","a","d","d","i","t","i","o","n","a","l"," ","c","o","l","u","m","n","s"," ","n","e","e","d","e","d",".","\n","-"," ","W","r","i","t","e"," ","v","a","l","i","d"," ","M","y","S","Q","L"," ","S","Q","L",".","\n","-"," ","O","u","t","p","u","t"," ","a"," ","s","i","n","g","l","e"," ","v","a","l","i","d"," ","S","Q","L"," ","s","t","a","t","e","m","e","n","t",".","\n","-"," ","D","o"," ","N","O","T"," ","i","n","c","l","u","d","e"," ","e","x","p","l","a","n","a","t","i","o","n","s",","," ","c","o","m","m","e","n","t","s",","," ","o","r"," ","M","a","r","k","d","o","w","n",".","\n","-"," ","D","o"," ","N","O","T"," ","w","r","a","p"," ","t","h","e"," ","S","Q","L"," ","i","n"," ","b","a","c","k","t","i","c","k","s",".","\n","-"," ","D","o"," ","N","O","T"," ","u","s","e"," ","p","l","a","c","e","h","o","l","d","e","r","s"," ","l","i","k","e"," ","<","v","a","l","u","e",">",";"," ","u","s","e"," ","c","o","n","c","r","e","t","e"," ","v","a","l","u","e","s"," ","w","h","e","n"," ","t","h","e"," ","q","u","e","s","t","i","o","n"," ","i","m","p","l","i","e","s"," ","t","h","e","m",".","\n","\n","S","C","O","P","I","N","G"," ","I","N","S","T","R","U","C","T","I","O","N","S",":","\n">>

SchemaContextHeader == <<"D","A","T","A","B","A","S","E"," ","S","C","H","E","M","A"," ","C","O","N","T","E","X","T"," ","(","e","x","c","e","r","p","t","s",")",":">>

\* system_prompt
SystemPrompt(schema_context, roster_id, client_id) ==
    Strip(SystemPromptHead
          \o Join(<<"\n">>, ScopeLines(roster_id, client_id))
          \o <<"\n","\n">> \o SchemaContextHeader \o <<"\n">>
          \o schema_context \o <<"\n">>)

\* user_prompt
UserPrompt(question) ==
    Strip(<<"\n","U","s","e","r"," ","q","u","e","s","t","i","o","n",":","\n">> \o question \o <<"\n","\n","R","e","t","u","r","n"," ","O","N","L","Y"," ","t","h","e"," ","S","Q","L"," ","s","t","a","t","e","m","e","n","t",".","\n">>)

Fence == <<"BACKTICK","BACKTICK","BACKTICK">>

\* the clean-up of the model's answer at the end of generate_sql
Sanitize(content) ==
    LET sql == Strip(content)
        unfenced == StripSet(sql, {"BACKTICK"})
    IN  IF StartsWith(sql, Fence)
        THEN IF StartsWith(Lower(unfenced), <<"s","q","l">>)
             THEN LStripSet(SubSeq(unfenced, 4, Len(unfenced)), Whitespace)
             ELSE unfenced
        ELSE sql

\* generate_sql(question, schema_chunks, roster_id, client_id); chat is what
\* client.chat.completions.create does: it returns a content or raises
generate_sql(question, schema_chunks, roster_id, client_id, chat) ==
    LET schema_context == _chunks_to_text(schema_chunks)
    IN  [raised |-> ~chat.ok,
         system_prompt |-> SystemPrompt(schema_context, roster_id, client_id),
         user_prompt |-> UserPrompt(question),
         sql |-> IF chat.ok THEN Sanitize(chat.content) ELSE <<>>]

\* ------------------------------------------------ app/main.py
SearchErrorLog == "[/nl2sql] Error during vector search:"
GenerationErrorLog == "[/nl2sql] Error during SQL generation:"
ErrorDetail == "Error generating SQL"

\* the handler without the try/except around vector_store.search
nl2sql_unguarded_search(request, search, chat) ==
    LET gen == generate_sql(request.question, search.chunks,
                            request.roster_id, request.client_id, chat)
    IN  IF ~search.ok
        THEN [escaped |-> TRUE, status |-> 500, detail |-> "", error |-> "",
              sql |-> <<>>, log |-> <<>>, searchCalls |-> 1, chatCalls |-> 0,
              schema_chunks |-> <<>>, system_prompt |-> <<>>]
        ELSE [escaped |-> FALSE,
              status |-> IF gen.raised THEN 500 ELSE 200,
              detail |-> IF gen.raised THEN ErrorDetail ELSE "",
              error |-> IF gen.raised THEN chat.error ELSE "",
              sql |-> gen.sql,
              log |-> IF gen.raised THEN <<GenerationErrorLog>> ELSE <<>>,
              searchCalls |-> 1, chatCalls |-> 1,
              schema_chunks |-> search.chunks,
              system_prompt |-> gen.system_prompt]

\* nl2sql(request): search is what vector_store.search does (it returns
\* chunks or raises), chat what the chat completion does
nl2sql(request, search, chat) ==
    LET schema_chunks == IF search.ok THEN search.chunks ELSE <<>>
        gen == generate_sql(request.question, schema_chunks,
                            request.roster_id, request.client_id, chat)
    IN  [escaped |-> FALSE,
         status |-> IF gen.raised THEN 500 ELSE 200,
         detail |-> IF gen.raised THEN ErrorDetail ELSE "",
         error |-> IF gen.raised THEN chat.error ELSE "",
         sql |-> gen.sql,
         log |-> (IF search.ok THEN <<>> ELSE <<SearchErrorLog>>)
                 \o (IF gen.raised THEN <<GenerationErrorLog>> ELSE <<>>),
         searchCalls |-> 1, chatCalls |-> 1,
         schema_chunks |-> schema_chunks,
         system_prompt |-> gen.system_prompt]

\* ---------------------------------------------------- requests, outcomes
MaxRequests == 2

Questions == {<<>>, <<" ","\n">>, <<"l","i","s","t"," ","p","a","t","i","e","n","t","s">>}

Ids == {None, <<0>>, <<15>>}

Requests == [question : Questions, roster_id : Ids, client_id : Ids]

ChunkPatient == [id |-> <<"p","a","t","i","e","n","t">>, text |-> <<"T","a","b","l","e",":"," ","p","a","t","i","e","n","t">>]
ChunkRp == [id |-> <<"r","p">>, text |-> <<"T","a","b","l","e",":"," ","r","p">>]
ChunkBlank == [id |-> <<"e">>, text |-> <<>>]

SearchOutcomes ==
    {[ok |-> FALSE, chunks |-> <<>>]}
    \cup {[ok |-> TRUE, chunks |-> cs] :
            cs \in {<<>>, <<ChunkPatient>>, <<ChunkPatient, ChunkRp>>, <<ChunkBlank>>}}

\* statements without backticks and without whitespace at either end
Statements == {<<"S","E","L","E","C","T"," ","1",";">>, <<"S","E","L","E","C","T"," ","p",".","i","d"," ","F","R","O","M"," ","p","a","t","i","e","n","t"," ","p">>}

\* ```sql, newline, the statement, newline, ```
FencedSql(S) == Fence \o <<"s","q","l","\n">> \o S \o <<"\n">> \o Fence

Contents ==
    Statements
    \cup {FencedSql(S) : S \in Statements}
    \cup {Fence \o <<"\n","S","E","L","E","C","T"," ","1",";","\n">> \o Fence, <<" ","S","E","L","E","C","T"," ","1",";","\n">>, <<>>}

ChatOutcomes ==
    {[ok |-> FALSE, content |-> <<>>, error |-> "Connection error."]}
    \cup {[ok |-> TRUE, content |-> c, error |-> ""] : c \in Contents}

NoRequest == [question |-> <<>>, roster_id |-> None, client_id |-> None]
NoSearch == [ok |-> TRUE, chunks |-> <<>>]
NoChat == [ok |-> TRUE, content |-> <<>>, error |-> ""]
NoResult ==
    [escaped |-> FALSE, status |-> 0, detail |-> "", error |-> "",
     sql |-> <<>>, log |-> <<>>, searchCalls |-> 0, chatCalls |-> 0,
     schema_chunks |-> <<>>, system_prompt |-> <<>>]

VARIABLES phase, request, search, chat, result, served, failures

svars == <<phase, request, search, chat, result, served, failures>>

InitService ==
    /\ phase = "idle"
    /\ request = NoRequest
    /\ search = NoSearch
    /\ chat = NoChat
    /\ result = NoResult
    /\ served = 0
    /\ failures = 0

\* ----------------------------------------------------------------- actions

\* startup reads the schema file and extracts its chunks
LoadSchemaChunks ==
    /\ load = "start"
    /\ LET r == load_schema_chunks(sql_text)
       IN  /\ chunks' = r.chunks
           /\ load' = r.outcome
    /\ UNCHANGED <<stmts, sql_text, bvars, svars>>

\* describe_index_stats and the early return; an empty range ends the loop
CheckStats(p) ==
    /\ pc[p] = "start"
    /\ observed' = [observed EXCEPT ![p] = TotalVectorCount(index)]
    /\ pc' = [pc EXCEPT ![p] =
                IF IsPopulated(TotalVectorCount(index)) THEN "done"
                ELSE IF Len(chunks) > 0 THEN "embed" ELSE "done"]
    /\ start' = [start EXCEPT ![p] = 0]
    /\ UNCHANGED <<xvars, index, embeddings, runEmbeds, runUpserts, runs,
                   prevDone, svars>>

\* self._embed(batch_texts) returns
EmbedBatch(p) ==
    /\ pc[p] = "embed"
    /\ LET batch_chunks == BatchChunks(chunks, start[p])
           batch_texts == [k \in 1..Len(batch_chunks) |-> batch_chunks[k].text]
       IN  embeddings' = [embeddings EXCEPT ![p] = _embed(batch_texts)]
    /\ runEmbeds' = [runEmbeds EXCEPT ![p] = @ + 1]
    /\ pc' = [pc EXCEPT ![p] = "upsert"]
    /\ UNCHANGED <<xvars, index, start, observed, runUpserts, runs,
                   prevDone, svars>>

\* self._embed(batch_texts) raises: the exception leaves the constructor
EmbedFails(p) ==
    /\ pc[p] = "embed"
    /\ runEmbeds' = [runEmbeds EXCEPT ![p] = @ + 1]
    /\ pc' = [pc EXCEPT ![p] = "failed"]
    /\ UNCHANGED <<xvars, index, start, embeddings, observed, runUpserts,
                   runs, prevDone, svars>>

\* self.index.upsert(vectors=vectors) returns; the loop moves to the next batch
UpsertBatch(p) ==
    /\ pc[p] = "upsert"
    /\ index' = Upsert(index, BatchVectors(BatchChunks(chunks, start[p]), embeddings[p]))
    /\ runUpserts' = [runUpserts EXCEPT ![p] = @ + 1]
    /\ start' = [start EXCEPT ![p] = @ + BATCH_SIZE]
    /\ pc' = [pc EXCEPT ![p] =
                IF start[p] + BATCH_SIZE < Len(chunks) THEN "embed" ELSE "done"]
    /\ UNCHANGED <<xvars, embeddings, observed, runEmbeds, runs, prevDone,
                   svars>>

\* self.index.upsert(vectors=vectors) raises
UpsertFails(p) ==
    /\ pc[p] = "upsert"
    /\ runUpserts' = [runUpserts EXCEPT ![p] = @ + 1]
    /\ pc' = [pc EXCEPT ![p] = "failed"]
    /\ UNCHANGED <<xvars, index, start, embeddings, observed, runEmbeds,
                   runs, prevDone, svars>>

\* the process is started again: __init__ runs _ensure_index_populated anew
Restart(p) ==
    /\ pc[p] \in {"done", "failed"}
    /\ runs[p] < MaxRuns
    /\ runs' = [runs EXCEPT ![p] = @ + 1]
    /\ prevDone' = [prevDone EXCEPT ![p] = (pc[p] = "done")]
    /\ pc' = [pc EXCEPT ![p] = "start"]
    /\ start' = [start EXCEPT ![p] = 0]
    /\ embeddings' = [embeddings EXCEPT ![p] = <<>>]
    /\ observed' = [observed EXCEPT ![p] = -1]
    /\ runEmbeds' = [runEmbeds EXCEPT ![p] = 0]
    /\ runUpserts' = [runUpserts EXCEPT ![p] = 0]
    /\ UNCHANGED <<xvars, index, svars>>

\* a POST /nl2sql body is parsed into an NL2SQLRequest: question is any str,
\* roster_id and client_id any Optional[int]; no field is validated further
ReceiveRequest ==
    /\ phase = "idle"
    /\ served < MaxRequests
    /\ request' \in Requests
    /\ phase' = "pending"
    /\ search' = NoSearch
    /\ chat' = NoChat
    /\ result' = NoResult
    /\ UNCHANGED <<served, failures, xvars, bvars>>

\* the handler nl2sql runs on the request, from the search to the response
PostNl2sql ==
    /\ phase = "pending"
    /\ \E so \in SearchOutcomes, co \in ChatOutcomes :
        /\ search' = so
        /\ chat' = co
        /\ result' = nl2sql(request, so, co)
        /\ failures' = failures + (IF so.ok /\ co.ok THEN 0 ELSE 1)
    /\ phase' = "idle"
    /\ served' = served + 1
    /\ UNCHANGED <<request, xvars, bvars>>

\* --------------------------------------------------------- specifications
vars == <<xvars, bvars, svars>>

\* the values of the variables of a part that takes no step
SchemaLoaded == stmts = <<>> /\ sql_text = <<>> /\ load = "loaded"

BootstrapOver ==
    /\ index = <<>>
    /\ pc = [p \in Procs |-> "done"]
    /\ start = [p \in Procs |-> 0]
    /\ embeddings = [p \in Procs |-> <<>>]
    /\ observed = [p \in Procs |-> -1]
    /\ runEmbeds = [p \in Procs |-> 0]
    /\ runUpserts = [p \in Procs |-> 0]
    /\ runs = [p \in Procs |-> 1]
    /\ prevDone = [p \in Procs |-> FALSE]

\* extraction of the chunks from a schema file
InitX == InitExtract /\ BootstrapOver /\ InitService

NextX == LoadSchemaChunks

SpecExtract == InitX /\ [][NextX]_vars

\* two processes start against one shared, initially empty index
InitB ==
    /\ SchemaLoaded
    /\ chunks \in {ChunkList(n) : n \in 1..MaxChunks}
    /\ InitBootstrap
    /\ InitService

NextB ==
    \E p \in Procs :
        \/ CheckStats(p)
        \/ EmbedBatch(p)
        \/ EmbedFails(p)
        \/ UpsertBatch(p)
        \/ UpsertFails(p)
        \/ Restart(p)

SpecBootstrap == InitB /\ [][NextB]_vars

\* the service answers POST /nl2sql requests
InitS == SchemaLoaded /\ chunks = <<>> /\ BootstrapOver /\ InitService

NextS == ReceiveRequest \/ PostNl2sql

SpecService == InitS /\ [][NextS]_vars

\* ------------------------------------------------------------------ claims

\* C1: a run of _ensure_index_populated that finds a total vector count of 1
\* or more returns at once: it makes no embedding call and no upsert call and
\* its stats step leaves the index as it is; a run that follows a completed
\* run of the same process is such a run and performs no upsert.
C1_BootstrapNoOpWhenPopulated ==
    [][\A p \in Procs :
         /\ observed'[p] >= 1 =>
               pc'[p] = "done" /\ runEmbeds'[p] = 0 /\ runUpserts'[p] = 0
         /\ (pc[p] = "start" /\ pc'[p] # "start" /\ observed'[p] >= 1) =>
               index' = index
         /\ (prevDone'[p] /\ pc'[p] # "start") =>
               observed'[p] >= 1 /\ runUpserts'[p] = 0]_vars

C1_Witness ==
    \E p \in Procs :
        /\ runs[p] = 2 /\ prevDone[p] /\ pc[p] = "done"
        /\ observed[p] >= 1 /\ runEmbeds[p] = 0 /\ runUpserts[p] = 0

\* the tables of a schema file, in source order
Tables(items) == SelectSeq(items, LAMBDA it : it.kind = "table")

WellFormed(items) == \A r \in 1..Len(items) : items[r].kind # "malformed"

\* C2: a DDL text made of N well-formed CREATE TABLE statements (comments
\* may stand between them) yields exactly N chunks, the i-th chunk carrying
\* the name of the i-th table, in source order.
C2_OneChunkPerTableInOrder ==
    (load # "start" /\ WellFormed(stmts)) =>
        /\ Len(chunks) = Len(Tables(stmts))
        /\ \A r \in 1..Len(chunks) : chunks[r].id = Tables(stmts)[r].name

C2_Witness ==
    /\ load = "loaded" /\ WellFormed(stmts)
    /\ Len(stmts) = 3 /\ Len(chunks) = 2
    /\ chunks[1].id = <<"r","p">> /\ chunks[2].id = <<"p","a","t","i","e","n","t">>

Handled == phase = "idle" /\ served > 0

\* C3: a model answer that is ```sql, a newline, a statement S without
\* backticks and without whitespace at either end, a newline and ``` is
\* returned as exactly S.
C3_FencedSqlYieldsStatement ==
    (Handled /\ chat.ok) =>
        \A S \in Statements : chat.content = FencedSql(S) => result.sql = S

\* what the claim calls the scoping clause of a parameter
HasRosterClause(prompt) == Contains(prompt, <<"T","h","e"," ","s","e","l","e","c","t","e","d"," ","r","o","s","t","e","r","_","i","d"," ","i","s"," ">>)

HasClientClause(prompt) == Contains(prompt, <<"T","h","e"," ","s","e","l","e","c","t","e","d"," ","c","l","i","e","n","t","_","i","d"," ","i","s"," ">>)

\* a statement that no roster filter (no tenant/client filter) is to be
\* applied has to name the filter it rules out
NamesRosterFilter(prompt) == Contains(Lower(prompt), <<"r","o","s","t","e","r">>)

NamesClientFilter(prompt) ==
    Contains(Lower(prompt), <<"c","l","i","e","n","t">>) \/ Contains(Lower(prompt), <<"t","e","n","a","n","t">>)

\* C4: with roster_id (client_id) given the system prompt holds a scoping
\* clause with the literal id; with None it holds no such clause and states
\* instead that no roster (tenant/client) filter is to be applied.
C4_ScopingClauses ==
    (Handled /\ result.chatCalls = 1) =>
        LET prompt == result.system_prompt
            rid == request.roster_id
            cid == request.client_id
        IN  /\ rid # None =>
                 Contains(prompt, <<"T","h","e"," ","s","e","l","e","c","t","e","d"," ","r","o","s","t","e","r","_","i","d"," ","i","s"," ">> \o IntToText(rid[1]) \o <<".">>)
            /\ rid = None => ~HasRosterClause(prompt) /\ NamesRosterFilter(prompt)
            /\ cid # None =>
                 Contains(prompt, <<"T","h","e"," ","s","e","l","e","c","t","e","d"," ","c","l","i","e","n","t","_","i","d"," ","i","s"," ">> \o IntToText(cid[1]) \o <<".">>)
            /\ cid = None => ~HasClientClause(prompt) /\ NamesClientFilter(prompt)

\* the text of the system prompt below the schema-context header
SchemaContextBlock(prompt) ==
    LET at == Min({i \in 1..Len(prompt) : MatchAt(prompt, i, SchemaContextHeader)})
    IN  SubSeq(prompt, at + Len(SchemaContextHeader) + 1, Len(prompt))

\* C5: when the chunk list given to prompt assembly is empty, the
\* schema-context block of the system prompt is a marker, never empty.
C5_EmptyContextMarked ==
    (Handled /\ result.chatCalls = 1 /\ result.schema_chunks = <<>>) =>
        SchemaContextBlock(result.system_prompt) # <<>>

\* C6: no table is dropped; every chunk text is at most MAX_CHARS plus the
\* marker long; the marker is in the text exactly when the rendered text is
\* longer than MAX_CHARS, and then the text is the first MAX_CHARS rendered
\* characters followed by the marker.
C6_ChunkLengthCap ==
    load # "start" =>
        LET ms == Matches(sql_text)
        IN  /\ Len(chunks) = Len(ms)
            /\ \A r \in 1..Len(chunks) :
                 LET raw == RawText(ms[r].name, ms[r].body)
                     text == chunks[r].text
                 IN  /\ Len(text) <= MAX_CHARS + Len(TruncationMarker)
                     /\ Contains(text, TruncationMarker) <=> Len(raw) > MAX_CHARS
                     /\ Len(raw) > MAX_CHARS =>
                          text = SubSeq(raw, 1, MAX_CHARS) \o TruncationMarker

C6_Witness ==
    /\ load = "loaded"
    /\ Len(chunks) = 1
    /\ Len(RawText(Matches(sql_text)[1].name, Matches(sql_text)[1].body)) = MAX_CHARS + 1
    /\ Len(chunks[1].text) = MAX_CHARS + Len(TruncationMarker)

\* C7: no exception leaves the handler; a failed search is logged and
\* generation runs with an empty chunk list; a failed generation ends the
\* request with status 500 and an error detail; the service then takes the
\* next request.
C7_FailuresStayPerRequest ==
    Handled =>
        /\ ~result.escaped
        /\ ~search.ok =>
             /\ \E k \in 1..Len(result.log) : result.log[k] = SearchErrorLog
             /\ result.chatCalls = 1
             /\ result.schema_chunks = <<>>
        /\ ~chat.ok =>
             /\ result.status = 500
             /\ result.detail = ErrorDetail
             /\ result.error = chat.error
        /\ chat.ok => result.status = 200
        /\ served < MaxRequests => ENABLED ReceiveRequest

C7_Witness ==
    /\ Handled /\ served >= 2 /\ failures >= 2
    /\ ~search.ok /\ ~chat.ok
    /\ result.status = 500

\* C8: a request whose question is empty or only whitespace is answered
\* with status 400, without a search, without a chat completion and
\* without SQL.
C8_BlankQuestionRejected ==
    (Handled /\ Strip(request.question) = <<>>) =>
        /\ result.status = 400
        /\ result.searchCalls = 0
        /\ result.chatCalls = 0
        /\ result.sql = <<>>

\* C9: a CREATE TABLE statement without its closing ");" is skipped: no
\* chunk carries its name and no chunk holds part of its body, whatever
\* follows it in the text.
C9_MalformedSkipped ==
    load # "start" =>
        \A i \in 1..Len(stmts) : stmts[i].kind = "malformed" =>
            \A r \in 1..Len(chunks) :
                /\ chunks[r].id # stmts[i].name
                /\ ~Contains(chunks[r].text, MalformedBody)

\* C10: when two processes have both run _ensure_index_populated to its end
\* against the shared index, the index holds one entry for each chunk id,
\* with that chunk's text as metadata, and nothing else.
C10_ConcurrentStartupBenign ==
    (\A p \in Procs : pc[p] = "done" /\ runs[p] = 1) =>
        /\ Len(index) = Len(chunks)
        /\ \A k \in 1..Len(chunks) :
             /\ Cardinality({j \in 1..Len(index) : index[j].id = chunks[k].id}) = 1
             /\ \A j \in 1..Len(index) :
                  index[j].id = chunks[k].id =>
                      /\ index[j].metadata.text = chunks[k].text
                      /\ index[j].values = Embedding(chunks[k].text)

C10_Witness ==
    /\ \A p \in Procs : pc[p] = "done" /\ runs[p] = 1 /\ runUpserts[p] >= 2
    /\ Len(chunks) > BATCH_SIZE
    /\ Len(index) = Len(chunks)

\* the index holds the chunks of the first k batches, each once and with its
\* text, nothing else, and the chunk list has further chunks
HoldsFirstBatches(k) ==
    LET m == k * BATCH_SIZE
    IN  /\ m < Len(chunks)
        /\ Len(index) = m
        /\ \A j \in 1..m :
             \E i \in 1..Len(index) :
                 /\ index[i].id = chunks[j].id
                 /\ index[i].metadata.text = chunks[j].text

\* the first run of p was aborted by a failed embed or upsert call after k
\* of its batches were upserted, and no other process wrote to the index:
\* each is in its first run and has not seen a vector count of 0
Aborted(p, k) ==
    /\ pc[p] = "failed"
    /\ runs[p] = 1
    /\ start[p] = k * BATCH_SIZE
    /\ \A q \in Procs \ {p} : runs[q] = 1 /\ observed[q] # 0

\* no process is between its stats check and its return, and every run
\* other than the aborted one that has passed its stats check saw a vector
\* count of 1 or more and made no embedding call and no upsert call
LaterRunsAreNoOps(p) ==
    \A q \in Procs :
        /\ pc[q] \notin {"embed", "upsert"}
        /\ (pc[q] # "start" /\ (q # p \/ runs[q] > 1)) =>
              observed[q] >= 1 /\ runEmbeds[q] = 0 /\ runUpserts[q] = 0

\* C11: when a bootstrap run is aborted by an embed or upsert failure after
\* k >= 1 batches were upserted, the index holds exactly the chunks of the
\* first k batches of 10, in chunk-list order; from then on every run of
\* _ensure_index_populated sees a non-zero count and does nothing, so the
\* index stays at those chunks for ever and the rest is never added.
C11_PartialBootstrapIsPermanent ==
    \A p \in Procs, k \in 1..(MaxChunks \div BATCH_SIZE) :
        [](Aborted(p, k) => [](HoldsFirstBatches(k) /\ LaterRunsAreNoOps(p)))

C11_Witness ==
    \E p \in Procs :
        /\ runs[p] = 2 /\ ~prevDone[p] /\ pc[p] = "done"
        /\ observed[p] = 2 * BATCH_SIZE
        /\ \A q \in Procs \ {p} :
             runs[q] = 2 /\ prevDone[q] /\ pc[q] = "done" /\ observed[q] >= 1
        /\ HoldsFirstBatches(2)
====
